---- MODULE Spec2Model ----
(***************************************************************************)
(* Model of river/expert/bandit.py: the Bandit base class and its two      *)
(* policies, EpsilonGreedyBandit and UCBBandit.                            *)
(*                                                                         *)
(* Arms are indexed from 0 as in the source; arrays are functions over     *)
(* 0..n-1.  Floating point values are modelled as exact rationals          *)
(* <<numerator, denominator>> in lowest terms (rounding is not modelled).  *)
(* The UCB exploration bonus sqrt(2*ln(X)/N) is computed in fixed point    *)
(* with two decimals, with the IEEE results inf and nan kept apart.        *)
(* The collaborators (models, metric, reward scaler) are opaque: what they *)
(* return is an input of the action, their state is a count of the calls   *)
(* that completed, and each of their calls may raise.                      *)
(* np.random is process-wide state: in Spec its draws are inputs of the     *)
(* actions; SpecShared makes it a stream read at a position, to compare a   *)
(* bandit's choices with and without another bandit drawing from it.       *)
(***************************************************************************)
EXTENDS Integers, Sequences, FiniteSets, TLC

VARIABLES pc, cfg, models, n_arms, n_iter, N, average_reward, epsilon,
          metricN, scalerN, sumR, calls, raises, last, shared,
          reward_io

vars == <<pc, cfg, models, n_arms, n_iter, N, average_reward, epsilon,
          metricN, scalerN, sumR, calls, raises, last, shared,
          reward_io>>

\* ------------------------------------------------------------------ bounds
MaxCalls == 3
MaxModels == 2
MaxNew == 1
MaxArms == 3
MaxRaises == 1

\* ------------------------------------------------------------ arithmetic
Abs(x) == IF x < 0 THEN -x ELSE x

RECURSIVE GCD(_, _)
GCD(a, b) == IF b = 0 THEN a ELSE GCD(b, a % b)

\* a float, as the rational n/d in lowest terms, d > 0
Rat(n, d) == LET g == GCD(Abs(n), d) IN <<n \div g, d \div g>>
RatInt(n) == <<n, 1>>
RatAdd(p, q) == Rat(p[1] * q[2] + q[1] * p[2], p[2] * q[2])
RatSub(p, q) == Rat(p[1] * q[2] - q[1] * p[2], p[2] * q[2])
RatMul(p, q) == Rat(p[1] * q[1], p[2] * q[2])
RatLess(p, q) == p[1] * q[2] < q[1] * p[2]

RECURSIVE Pow2(_)
Pow2(k) == IF k = 0 THEN 1 ELSE 2 * Pow2(k - 1)

\* np.zeros(n)
ZerosInt(n) == [i \in 0..(n - 1) |-> 0]
ZerosFloat(n) == [i \in 0..(n - 1) |-> RatInt(0)]

\* a faulty variant: the new entries are put in front of the old ones
ConcatenateInFront(a, n, b, k) ==
    [i \in 0..(n + k - 1) |-> IF i < k THEN b[i] ELSE a[i - k]]

\* np.concatenate([a, b]) of arrays of lengths n and k
Concatenate(a, n, b, k) ==
    [i \in 0..(n + k - 1) |-> IF i < n THEN a[i] ELSE b[i - n]]

\* np.argmax of an array of n floats: the first index of the maximum
ArgMax(a, n) ==
    CHOOSE i \in 0..(n - 1) :
        /\ \A j \in 0..(n - 1) : ~RatLess(a[i], a[j])
        /\ \A j \in 0..(i - 1) : RatLess(a[j], a[i])

\* a faulty variant: the scan keeps the last index of the maximum
RECURSIVE ArgMaxLastFrom(_, _, _, _)
ArgMaxLastFrom(a, n, i, best) ==
    IF i >= n THEN best
    ELSE ArgMaxLastFrom(a, n, i + 1, IF ~RatLess(a[i], a[best]) THEN i ELSE best)

\* np.argmax as a scan from index i with the best index so far: a later
\* element replaces the best one only when it is strictly greater
RECURSIVE ArgMaxFrom(_, _, _, _)
ArgMaxFrom(a, n, i, best) ==
    IF i >= n THEN best
    ELSE ArgMaxFrom(a, n, i + 1, IF RatLess(a[best], a[i]) THEN i ELSE best)

\* np.log on the integers met here, to two decimals (x >= 1)
LogTable == <<0, 69, 110, 139, 161, 179, 195, 208, 220, 230, 240, 248>>

RECURSIVE LogCenti(_)
LogCenti(x) == IF x <= Len(LogTable) THEN LogTable[x] ELSE 69 + LogCenti(x \div 2)

\* np.sqrt of a non-negative fixed-point square, rounded down
Isqrt(x) == CHOOSE k \in 0..x : k * k <= x /\ x < (k + 1) * (k + 1)

\* ------------------------------------------------ constructor arguments
\* `models`: a list of models, each known here by metric.works_with(model)
ModelLists == UNION {[1..n -> BOOLEAN] : n \in 0..MaxModels}

NoDelta == [given |-> FALSE, v |-> RatInt(0)]
Delta(n, d) == [given |-> TRUE, v |-> Rat(n, d)]
\* delta: None, or a float; the ones inside ]0, 1[ are unit fractions, so
\* that 1/delta is an integer of LogTable
Deltas == {NoDelta, Delta(-1, 2), Delta(0, 1), Delta(1, 2), Delta(1, 1), Delta(3, 2)}
ExploreEachArm == {-1, 0, 1}
Epsilons == {RatInt(0), Rat(1, 2)}
\* epsilon_decay in units of ln(2), so that exp(-n_iter*epsilon_decay) is the
\* rational 2^-(n_iter*decay); 0 stands for both None and 0 (both falsy)
EpsilonDecays == {0, 1}

\* the scaled reward handed back by reward_scaler.transform_one
Rewards == {-1, 2}
\* the values np.random.rand() returns, in [0, 1)
Uniform == {RatInt(0), Rat(1, 4), Rat(3, 4)}

NoLast == [op |-> "none", arm |-> -1, branch |-> "none", draws |-> 0,
           fail |-> "none", err |-> "none", trace |-> <<>>, kind |-> "none",
           k |-> 0]

\* the process-wide generator np.random and the two runs compared under
\* SpecShared; in the other specifications every draw is an input
NoShared == [stream |-> <<>>, pos1 |-> 0, pos2 |-> 0, arms1 |-> <<>>, arms2 |-> <<>>]

\* what _compute_scaled_reward read from the metric and handed to the reward
\* scaler in the last cycle; followed under SpecReward only
NoRewardIO == [bigger_is_better |-> TRUE, metric_value |-> 0, calls |-> <<>>,
               reward |-> 0]

NoCfg == [policy |-> "none", models |-> <<>>, epsilon |-> RatInt(0),
          epsilon_decay |-> 0, delta |-> NoDelta, explore_each_arm |-> 0]

Init ==
    /\ pc = "new"
    /\ cfg = NoCfg
    /\ models = ZerosInt(0)
    /\ n_arms = 0
    /\ n_iter = 0
    /\ N = ZerosInt(0)
    /\ average_reward = ZerosFloat(0)
    /\ epsilon = RatInt(0)
    /\ metricN = 0
    /\ scalerN = 0
    /\ sumR = ZerosInt(0)
    /\ calls = 0
    /\ raises = 0
    /\ last = NoLast
    /\ shared = NoShared
    /\ reward_io = NoRewardIO

\* ---------------------------------------------------------- construction
\* a faulty variant: a single model is accepted
BanditInitErrorOffByOne(ms) ==
    IF Len(ms) < 1 THEN "ValueError_models"
    ELSE IF \E i \in 1..Len(ms) : ~ms[i] THEN "ValueError_metric"
    ELSE "none"

\* Bandit.__init__: the checks of its arguments
BanditInitError(ms) ==
    IF Len(ms) <= 1 THEN "ValueError_models"
    ELSE IF \E i \in 1..Len(ms) : ~ms[i] THEN "ValueError_metric"
    ELSE "none"

\* a faulty variant: delta = 0 and delta = 1 are accepted
UCBInitErrorClosedInterval(ms, delta) ==
    IF BanditInitError(ms) # "none" THEN BanditInitError(ms)
    ELSE IF delta.given /\ (RatLess(RatInt(1), delta.v) \/ RatLess(delta.v, RatInt(0)))
         THEN "ValueError_delta"
    ELSE "none"

\* UCBBandit.__init__: the check of delta, made after Bandit.__init__
UCBInitError(ms, delta) ==
    IF BanditInitError(ms) # "none" THEN BanditInitError(ms)
    ELSE IF delta.given /\ (~RatLess(delta.v, RatInt(1)) \/ ~RatLess(RatInt(0), delta.v))
         THEN "ValueError_delta"
    ELSE "none"

\* the constructor raised: no object exists
Raised(c, err) ==
    /\ pc' = "failed"
    /\ cfg' = c
    /\ last' = [NoLast EXCEPT !.op = "__init__", !.err = err]
    /\ UNCHANGED <<models, n_arms, n_iter, N, average_reward, epsilon,
                   metricN, scalerN, sumR, calls, raises, shared,
                   reward_io>>

\* Bandit.__init__: the bandit internals
BanditInit(c) ==
    /\ pc' = "ready"
    /\ cfg' = c
    /\ models' = [i \in 0..(Len(c.models) - 1) |->
                    [id |-> i, works |-> c.models[i + 1], fitted |-> 0]]
    /\ n_arms' = Len(c.models)
    /\ n_iter' = 0
    /\ N' = ZerosInt(Len(c.models))
    /\ average_reward' = ZerosFloat(Len(c.models))
    /\ epsilon' = c.epsilon
    /\ sumR' = ZerosInt(Len(c.models))
    /\ last' = [NoLast EXCEPT !.op = "__init__"]
    /\ UNCHANGED <<metricN, scalerN, calls, raises, shared,
                   reward_io>>

EpsilonGreedyInit ==
    /\ pc = "new"
    /\ \E ms \in ModelLists, e \in Epsilons, d \in EpsilonDecays :
         LET c == [policy |-> "eps", models |-> ms, epsilon |-> e,
                   epsilon_decay |-> d, delta |-> NoDelta, explore_each_arm |-> 0]
         IN IF BanditInitError(ms) # "none"
            THEN Raised(c, BanditInitError(ms))
            ELSE BanditInit(c)

UCBInit ==
    /\ pc = "new"
    /\ \E ms \in ModelLists, dl \in Deltas, x \in ExploreEachArm :
         LET c == [policy |-> "ucb", models |-> ms, epsilon |-> RatInt(0),
                   epsilon_decay |-> 0, delta |-> dl, explore_each_arm |-> x]
         IN IF UCBInitError(ms, dl) # "none"
            THEN Raised(c, UCBInitError(ms, dl))
            ELSE BanditInit(c)

\* ------------------------------------------------------------ selection
Arms == 0..(n_arms - 1)

\* EpsilonGreedyBandit._pull_arm with rand() = u and random.choice(n_arms) = c
EpsilonGreedyPull(u, c) ==
    IF RatLess(epsilon, u)
    THEN [arm |-> ArgMax(average_reward, n_arms), branch |-> "greedy", draws |-> 1]
    ELSE [arm |-> c, branch |-> "random", draws |-> 2]

\* a faulty variant: < in place of <=
NotPulledEnoughStrict == {i \in Arms : N[i] < cfg.explore_each_arm}

\* UCBBandit._pull_arm: np.where(self._N <= self.explore_each_arm)
NotPulledEnough == {i \in Arms : N[i] <= cfg.explore_each_arm}

\* np.log(1/delta) or np.log(n_iter): -inf at 0
LogX ==
    IF cfg.delta.given /\ cfg.delta.v # RatInt(0)
    THEN [k |-> "fin", v |-> LogCenti(cfg.delta.v[2] \div cfg.delta.v[1])]
    ELSE IF n_iter = 0 THEN [k |-> "neginf", v |-> 0]
    ELSE [k |-> "fin", v |-> LogCenti(n_iter)]

\* np.sqrt(2 * log / N[i]) as IEEE arithmetic gives it: x/0 is inf, 0/0 and
\* sqrt(-inf) are nan
ExplorationBonus(i) ==
    IF N[i] = 0
    THEN IF LogX.k = "neginf" \/ LogX.v = 0
         THEN [k |-> "nan", v |-> 0] ELSE [k |-> "inf", v |-> 0]
    ELSE IF LogX.k = "neginf" THEN [k |-> "nan", v |-> 0]
    ELSE [k |-> "fin", v |-> Isqrt((2 * LogX.v * 100) \div N[i])]

UpperBound(i) ==
    IF ExplorationBonus(i).k = "fin"
    THEN [k |-> "fin",
          v |-> ((100 * average_reward[i][1]) \div average_reward[i][2])
                + ExplorationBonus(i).v]
    ELSE ExplorationBonus(i)

\* np.argmax(upper_bound): the first nan if any, else the first maximum
ArgMaxUpperBound ==
    IF \E i \in Arms : UpperBound(i).k = "nan"
    THEN CHOOSE i \in Arms : /\ UpperBound(i).k = "nan"
                             /\ \A j \in 0..(i - 1) : UpperBound(j).k # "nan"
    ELSE IF \E i \in Arms : UpperBound(i).k = "inf"
    THEN CHOOSE i \in Arms : /\ UpperBound(i).k = "inf"
                             /\ \A j \in 0..(i - 1) : UpperBound(j).k # "inf"
    ELSE CHOOSE i \in Arms : /\ \A j \in Arms : UpperBound(j).v <= UpperBound(i).v
                             /\ \A j \in 0..(i - 1) : UpperBound(j).v < UpperBound(i).v

\* UCBBandit._pull_arm with random.choice(never_pulled_arm) = c
UCBPull(c) ==
    IF NotPulledEnough # {}
    THEN [arm |-> c, branch |-> "explore", draws |-> 1]
    ELSE [arm |-> ArgMaxUpperBound, branch |-> "bound", draws |-> 0]

\* self._pull_arm(): every outcome the random source allows
PullArm ==
    IF cfg.policy = "eps"
    THEN {EpsilonGreedyPull(u, c) : u \in Uniform, c \in Arms}
    ELSE IF NotPulledEnough # {}
    THEN {UCBPull(c) : c \in NotPulledEnough}
    ELSE {UCBPull(0)}

\* -------------------------------------------------- read-only properties
\* a faulty variant of _best_model_idx
best_model_idx_last == ArgMaxLastFrom(average_reward, n_arms, 1, 0)

\* Bandit._best_model_idx: np.argmax(self._average_reward)
best_model_idx == ArgMaxFrom(average_reward, n_arms, 1, 0)

\* sum(self._N): the builtin sum over the first n entries
RECURSIVE SumN(_, _)
SumN(a, n) == IF n = 0 THEN 0 ELSE SumN(a, n - 1) + a[n - 1]

\* a faulty variant: the counts are divided by the number of arms
percentage_pulled_per_arm ==
    [i \in Arms |-> [k |-> "fin", v |-> Rat(N[i], n_arms)]]

\* Bandit.percentage_pulled: self._N / sum(self._N), a float array; numpy
\* gives nan for 0/0 (and inf for x/0) and raises nothing
percentage_pulled ==
    [i \in Arms |->
        IF SumN(N, n_arms) = 0
        THEN IF N[i] = 0 THEN [k |-> "nan", v |-> RatInt(0)]
                         ELSE [k |-> "inf", v |-> RatInt(0)]
        ELSE [k |-> "fin", v |-> Rat(N[i], SumN(N, n_arms))]]

\* ------------------------------------------------------------- learn_one
\* a variant order: the chosen model is trained at the end of the cycle
LearnOneOrderTrainLast ==
    <<"pull_arm", "predict_one", "metric_update", "metric_eval",
      "scaler_learn_one", "scaler_transform_one", "update_stats", "update_arm",
      "model_learn_one">>

\* the steps of Bandit.learn_one, in the order of its statements
LearnOneOrder ==
    <<"pull_arm", "predict_one", "metric_update", "model_learn_one",
      "metric_eval", "scaler_learn_one", "scaler_transform_one",
      "update_stats", "update_arm">>

\* the collaborator calls of a cycle: each may raise
Collaborators ==
    {"predict_one", "metric_update", "model_learn_one", "metric_eval",
     "scaler_learn_one", "scaler_transform_one"}

Position(seq, e) == CHOOSE i \in 1..Len(seq) : seq[i] = e

\* the steps completed when the call f raises ("none": no call raises)
Trace(f) ==
    IF f = "none" THEN LearnOneOrder
    ELSE SubSeq(LearnOneOrder, 1, Position(LearnOneOrder, f) - 1)

Done(tr, e) == \E i \in 1..Len(tr) : tr[i] = e

\* a faulty variant: reward / N is added, not (reward - average) / N
RunningMeanNoDifference(avg, n, r) ==
    RatAdd(avg, RatMul(Rat(1, n), RatInt(r)))

\* self._average_reward[arm] += (1.0 / self._N[arm]) * (reward - average),
\* with n = self._N[arm], already incremented
RunningMean(avg, n, r) ==
    RatAdd(avg, RatMul(Rat(1, n), RatSub(RatInt(r), avg)))

\* EpsilonGreedyBandit._update_arm / UCBBandit._update_arm, with n = self._n_iter
UpdateArm(n) ==
    IF cfg.policy = "eps" /\ cfg.epsilon_decay # 0
    THEN RatMul(cfg.epsilon, Rat(1, Pow2(n * cfg.epsilon_decay)))
    ELSE epsilon

\* a faulty variant: self._N += 1, which increments every arm
IncrementPullAll(n, arm) == [i \in DOMAIN n |-> n[i] + 1]

\* self._N[chosen_arm] += 1
IncrementPull(n, arm) == [n EXCEPT ![arm] = @ + 1]

\* the body of Bandit.learn_one when _pull_arm gives p, the scaled reward is r
\* and the collaborator call f raises ("none": no call raises)
LearnOneCycle(p, r, f) ==
    LET tr == Trace(f) IN
    /\ metricN' = IF Done(tr, "metric_update") THEN metricN + 1 ELSE metricN
    /\ models' = IF Done(tr, "model_learn_one")
                 THEN [models EXCEPT ![p.arm].fitted = @ + 1] ELSE models
    /\ scalerN' = IF Done(tr, "scaler_learn_one") THEN scalerN + 1 ELSE scalerN
    /\ IF Done(tr, "update_stats")
       THEN /\ n_iter' = n_iter + 1
            /\ N' = IncrementPull(N, p.arm)
            /\ average_reward' =
                 [average_reward EXCEPT
                    ![p.arm] = RunningMean(@, N[p.arm] + 1, r)]
            /\ sumR' = [sumR EXCEPT ![p.arm] = @ + r]
       ELSE UNCHANGED <<n_iter, N, average_reward, sumR>>
    /\ epsilon' = IF Done(tr, "update_arm") THEN UpdateArm(n_iter') ELSE epsilon
    /\ last' = [op |-> "learn_one", arm |-> p.arm, branch |-> p.branch,
                draws |-> p.draws, fail |-> f,
                err |-> IF f = "none" THEN "none" ELSE "raised",
                trace |-> tr, kind |-> "none", k |-> 0]

learn_one ==
    /\ pc = "ready"
    /\ calls < MaxCalls
    /\ \E p \in PullArm, r \in Rewards, f \in Collaborators \cup {"none"} :
         /\ f # "none" => raises < MaxRaises
         /\ raises' = IF f = "none" THEN raises ELSE raises + 1
         /\ LearnOneCycle(p, r, f)
    /\ calls' = calls + 1
    /\ UNCHANGED <<pc, cfg, n_arms, shared,
                   reward_io>>

\* ----------------------------------------------------------- predict_one
\* a faulty variant: the prediction counts as a pull of the chosen arm
predict_one_counting_pull ==
    /\ pc = "ready"
    /\ calls < MaxCalls
    /\ \E p \in PullArm :
         /\ N' = [N EXCEPT ![p.arm] = @ + 1]
         /\ last' = [NoLast EXCEPT !.op = "predict_one", !.arm = p.arm,
                                   !.branch = p.branch, !.draws = p.draws,
                                   !.trace = <<"pull_arm", "predict_one">>]
    /\ calls' = calls + 1
    /\ UNCHANGED <<pc, cfg, models, n_arms, n_iter, average_reward, epsilon,
                   metricN, scalerN, sumR, raises, shared,
                   reward_io>>

predict_one ==
    /\ pc = "ready"
    /\ calls < MaxCalls
    /\ \E p \in PullArm, f \in {"none", "predict_one"} :
         /\ f # "none" => raises < MaxRaises
         /\ raises' = IF f = "none" THEN raises ELSE raises + 1
         /\ last' = [op |-> "predict_one", arm |-> p.arm, branch |-> p.branch,
                  draws |-> p.draws, fail |-> f,
                  err |-> IF f = "none" THEN "none" ELSE "raised",
                  trace |-> IF f = "none" THEN <<"pull_arm", "predict_one">>
                            ELSE <<"pull_arm">>,
                  kind |-> "none", k |-> 0]
    /\ calls' = calls + 1
    /\ UNCHANGED <<pc, cfg, models, n_arms, n_iter, N, average_reward, epsilon,
                   metricN, scalerN, sumR, shared,
                   reward_io>>

\* ------------------------------------------------------------ add_models
\* the argument of add_models: a list, or something that is not one
NewModels ==
    {[kind |-> kd, items |-> it] :
        kd \in {"list", "tuple"}, it \in UNION {[1..n -> BOOLEAN] : n \in 0..MaxNew}}
    \cup {[kind |-> "model", items |-> <<>>], [kind |-> "None", items |-> <<>>]}

\* a faulty variant: a tuple passes for a list
IsListOrTuple(arg) == arg.kind \in {"list", "tuple"}

\* isinstance(new_models, list)
IsList(arg) == arg.kind = "list"

add_models ==
    /\ pc = "ready"
    /\ calls < MaxCalls
    /\ \E arg \in NewModels :
         IF ~IsList(arg)
         THEN /\ last' = [NoLast EXCEPT !.op = "add_models", !.err = "TypeError",
                                        !.kind = arg.kind]
              /\ UNCHANGED <<models, n_arms, N, average_reward, sumR>>
         ELSE LET length_new_models == Len(arg.items) IN
              /\ n_arms + length_new_models <= MaxArms
              /\ models' = Concatenate(models, n_arms,
                             [j \in 0..(length_new_models - 1) |->
                                [id |-> n_arms + j, works |-> arg.items[j + 1],
                                 fitted |-> 0]],
                             length_new_models)
              /\ n_arms' = n_arms + length_new_models
              /\ N' = Concatenate(N, n_arms, ZerosInt(length_new_models),
                                  length_new_models)
              /\ average_reward' =
                   Concatenate(average_reward, n_arms,
                               ZerosFloat(length_new_models), length_new_models)
              /\ sumR' = Concatenate(sumR, n_arms, ZerosInt(length_new_models),
                                     length_new_models)
              /\ last' = [NoLast EXCEPT !.op = "add_models", !.kind = arg.kind,
                                        !.k = length_new_models]
    /\ calls' = calls + 1
    /\ UNCHANGED <<pc, cfg, n_iter, epsilon, metricN, scalerN, raises, shared,
                   reward_io>>

Next ==
    \/ EpsilonGreedyInit
    \/ UCBInit
    \/ learn_one
    \/ predict_one
    \/ add_models

Spec == Init /\ [][Next]_vars

\* ------------------------------------------- the fixed-reward scenario
\* the learn_one cycles that follow the first pull of each arm
ScenarioPulls == 10

\* the scaled reward each arm's model earns, whatever its pull count
FixedRewards == <<1, 5, 3>>

\* EpsilonGreedyBandit(models of length 3, epsilon=0) after one completed
\* learn_one on each arm
InitScenario ==
    /\ pc = "ready"
    /\ cfg = [policy |-> "eps", models |-> <<TRUE, TRUE, TRUE>>,
              epsilon |-> RatInt(0), epsilon_decay |-> 0, delta |-> NoDelta,
              explore_each_arm |-> 0]
    /\ models = [i \in 0..2 |-> [id |-> i, works |-> TRUE, fitted |-> 1]]
    /\ n_arms = 3
    /\ n_iter = 3
    /\ N = [i \in 0..2 |-> 1]
    /\ average_reward = [i \in 0..2 |-> RatInt(FixedRewards[i + 1])]
    /\ epsilon = RatInt(0)
    /\ metricN = 3
    /\ scalerN = 3
    /\ sumR = [i \in 0..2 |-> FixedRewards[i + 1]]
    /\ calls = 0
    /\ raises = 0
    /\ last = NoLast
    /\ shared = NoShared
    /\ reward_io = NoRewardIO

\* Bandit.learn_one in the scenario: no call raises, the reward is the
\* chosen arm's
scenario_learn_one ==
    /\ pc = "ready"
    /\ calls < ScenarioPulls
    /\ \E p \in PullArm : LearnOneCycle(p, FixedRewards[p.arm + 1], "none")
    /\ calls' = calls + 1
    /\ UNCHANGED <<pc, cfg, n_arms, raises, shared,
                   reward_io>>

NextScenario == scenario_learn_one

SpecScenario == InitScenario /\ [][NextScenario]_vars

\* ------------------------------------- two bandits and one np.random
\* the draws np.random can serve before the comparison stops
StreamLen == 4

\* the raw outputs of the generator
Raws == 0..3

\* np.random.rand() on the raw output x
RandOf(x) == Rat(x, 4)

\* np.random.choice(S) on the raw output x: S is in increasing order
ChoiceOf(x, S) ==
    CHOOSE a \in S : Cardinality({b \in S : b < a}) = x % Cardinality(S)

\* self._pull_arm() when np.random stands at position pos of the stream
SharedPull(pos) ==
    IF cfg.policy = "eps"
    THEN EpsilonGreedyPull(RandOf(shared.stream[pos + 1]),
                           ChoiceOf(shared.stream[pos + 2], Arms))
    ELSE IF NotPulledEnough # {}
    THEN UCBPull(ChoiceOf(shared.stream[pos + 1], NotPulledEnough))
    ELSE UCBPull(0)

\* a bandit of two models just built, EpsilonGreedyBandit(epsilon=0.5) or
\* UCBBandit(explore_each_arm=0), and np.random in any seeded state; the
\* same bandit and the same seed start both runs
InitShared ==
    /\ pc = "ready"
    /\ cfg \in {[policy |-> "eps", models |-> <<TRUE, TRUE>>,
                 epsilon |-> Rat(1, 2), epsilon_decay |-> 0, delta |-> NoDelta,
                 explore_each_arm |-> 0],
                [policy |-> "ucb", models |-> <<TRUE, TRUE>>,
                 epsilon |-> RatInt(0), epsilon_decay |-> 0, delta |-> NoDelta,
                 explore_each_arm |-> 0]}
    /\ models = [i \in 0..1 |-> [id |-> i, works |-> TRUE, fitted |-> 0]]
    /\ n_arms = 2
    /\ n_iter = 0
    /\ N = ZerosInt(2)
    /\ average_reward = ZerosFloat(2)
    /\ epsilon = cfg.epsilon
    /\ metricN = 0
    /\ scalerN = 0
    /\ sumR = ZerosInt(2)
    /\ calls = 0
    /\ raises = 0
    /\ last = NoLast
    /\ \E st \in [1..StreamLen -> Raws] :
          shared = [stream |-> st, pos1 |-> 0, pos2 |-> 0,
                    arms1 |-> <<>>, arms2 |-> <<>>]
    /\ reward_io = NoRewardIO

\* Bandit.predict_one on this bandit, in both runs: each reads np.random
\* where its run has left it
shared_predict_one ==
    /\ pc = "ready"
    /\ shared.pos1 + 2 <= StreamLen
    /\ shared.pos2 + 2 <= StreamLen
    /\ LET p1 == SharedPull(shared.pos1)
           p2 == SharedPull(shared.pos2)
       IN /\ shared' = [shared EXCEPT !.pos1 = @ + p1.draws,
                                      !.pos2 = @ + p2.draws,
                                      !.arms1 = Append(@, p1.arm),
                                      !.arms2 = Append(@, p2.arm)]
          /\ last' = [NoLast EXCEPT !.op = "predict_one", !.arm = p2.arm,
                                    !.branch = p2.branch, !.draws = p2.draws,
                                    !.trace = <<"pull_arm", "predict_one">>]
    /\ calls' = calls + 1
    /\ UNCHANGED <<pc, cfg, models, n_arms, n_iter, N, average_reward, epsilon,
                   metricN, scalerN, sumR, raises, reward_io>>

\* in the second run only, a call of learn_one or predict_one on another
\* bandit: its _pull_arm takes one or two draws from the same np.random
other_bandit_pull ==
    /\ pc = "ready"
    /\ \E d \in {1, 2} :
          /\ shared.pos2 + d <= StreamLen
          /\ shared' = [shared EXCEPT !.pos2 = @ + d]
    /\ UNCHANGED <<pc, cfg, models, n_arms, n_iter, N, average_reward, epsilon,
                   metricN, scalerN, sumR, calls, raises, last, reward_io>>

NextShared ==
    \/ shared_predict_one
    \/ other_bandit_pull

SpecShared == InitShared /\ [][NextShared]_vars

\* --------------------------------------- what the reward scaler is given
\* the values self.metric._eval(y_pred, y_true) returns
MetricValues == {-2, 0, 3}

\* a faulty variant: the metric value is passed on whatever the metric's sense
MetricToRewardUnsigned(m, b) == m

\* metric_value if self.metric.bigger_is_better else (-1) * metric_value
MetricToReward(m, b) == IF b THEN m ELSE (-1) * m

\* the calls made on self.reward_scaler in a cycle with trace tr, in their
\* order, each with its argument {"metric": x}
ScalerCalls(tr, x) ==
    LET ev == SelectSeq(tr, LAMBDA e :
                  e \in {"scaler_learn_one", "scaler_transform_one"})
    IN [i \in 1..Len(ev) |-> [call |-> ev[i], x |-> x]]

\* Bandit._compute_scaled_reward (update_scaler keeps its default, True) in
\* a cycle with trace tr: the metric gives m, its bigger_is_better is b, the
\* scaler's transform_one gives r
ComputeScaledReward(m, b, r, tr) ==
    [bigger_is_better |-> b,
     metric_value |-> IF Done(tr, "metric_eval") THEN m ELSE 0,
     calls |-> ScalerCalls(tr, MetricToReward(m, b)),
     reward |-> IF Done(tr, "scaler_transform_one") THEN r ELSE 0]

\* a bandit of two models just built, with a metric of either sense
InitReward ==
    /\ pc = "ready"
    /\ cfg \in {[policy |-> "eps", models |-> <<TRUE, TRUE>>,
                 epsilon |-> Rat(1, 2), epsilon_decay |-> 0, delta |-> NoDelta,
                 explore_each_arm |-> 0],
                [policy |-> "ucb", models |-> <<TRUE, TRUE>>,
                 epsilon |-> RatInt(0), epsilon_decay |-> 0, delta |-> NoDelta,
                 explore_each_arm |-> 0]}
    /\ models = [i \in 0..1 |-> [id |-> i, works |-> TRUE, fitted |-> 0]]
    /\ n_arms = 2
    /\ n_iter = 0
    /\ N = ZerosInt(2)
    /\ average_reward = ZerosFloat(2)
    /\ epsilon = cfg.epsilon
    /\ metricN = 0
    /\ scalerN = 0
    /\ sumR = ZerosInt(2)
    /\ calls = 0
    /\ raises = 0
    /\ last = NoLast
    /\ shared = NoShared
    /\ \E b \in BOOLEAN : reward_io = [NoRewardIO EXCEPT !.bigger_is_better = b]

\* Bandit.learn_one, with what passes between the metric and the scaler
reward_learn_one ==
    /\ pc = "ready"
    /\ calls < MaxCalls
    /\ \E p \in PullArm, m \in MetricValues, r \in Rewards,
          f \in Collaborators \cup {"none"} :
         /\ f # "none" => raises < MaxRaises
         /\ raises' = IF f = "none" THEN raises ELSE raises + 1
         /\ LearnOneCycle(p, r, f)
         /\ reward_io' = ComputeScaledReward(m, reward_io.bigger_is_better, r,
                                             Trace(f))
    /\ calls' = calls + 1
    /\ UNCHANGED <<pc, cfg, n_arms, shared>>

NextReward == reward_learn_one

SpecReward == InitReward /\ [][NextReward]_vars

\* ------------------------------------------- the forced exploration phase
\* learn_one calls followed from the construction of a UCB bandit
ExplorePulls == 7

\* UCBBandit(models, delta, explore_each_arm) just built: two or three
\* models, each arm to be explored once or twice
InitExplore ==
    /\ pc = "ready"
    /\ \E ms \in {<<TRUE, TRUE>>, <<TRUE, TRUE, TRUE>>}, e \in {0, 1},
          d \in {NoDelta, Delta(1, 2)} :
         cfg = [policy |-> "ucb", models |-> ms, epsilon |-> RatInt(0),
                epsilon_decay |-> 0, delta |-> d, explore_each_arm |-> e]
    /\ n_arms = Len(cfg.models)
    /\ models = [i \in 0..(n_arms - 1) |-> [id |-> i, works |-> TRUE, fitted |-> 0]]
    /\ n_iter = 0
    /\ N = ZerosInt(n_arms)
    /\ average_reward = ZerosFloat(n_arms)
    /\ epsilon = cfg.epsilon
    /\ metricN = 0
    /\ scalerN = 0
    /\ sumR = ZerosInt(n_arms)
    /\ calls = 0
    /\ raises = 0
    /\ last = NoLast
    /\ shared = NoShared
    /\ reward_io = NoRewardIO

\* Bandit.learn_one on that bandit
explore_learn_one ==
    /\ pc = "ready"
    /\ calls < ExplorePulls
    /\ \E p \in PullArm, r \in Rewards, f \in Collaborators \cup {"none"} :
         /\ f # "none" => raises < MaxRaises
         /\ raises' = IF f = "none" THEN raises ELSE raises + 1
         /\ LearnOneCycle(p, r, f)
    /\ calls' = calls + 1
    /\ UNCHANGED <<pc, cfg, n_arms, shared, reward_io>>

NextExplore == explore_learn_one

SpecExplore == InitExplore /\ [][NextExplore]_vars

\* ------------------------------------------------------------ properties
Pulls == {"learn_one", "predict_one"}

\* C1: for every arm the stored average reward is the exact arithmetic mean
\* of the rewards recorded for it: average_reward * pull_count equals the sum
\* of those rewards, and the average is 0 for an arm never pulled.
C1_AverageIsMean ==
    pc = "ready" =>
        \A i \in Arms :
            /\ average_reward[i][1] * N[i] = sumR[i] * average_reward[i][2]
            /\ N[i] = 0 => average_reward[i] = RatInt(0)

\* an arm pulled at least twice whose mean is not an integer, beside an arm
\* added later and never pulled
C1_Witness ==
    /\ pc = "ready"
    /\ \E i \in Arms : N[i] >= 2 /\ average_reward[i][2] = 2
    /\ \E i \in Arms : N[i] = 0 /\ i >= Len(cfg.models)

C3_EpsilonZeroIsGreedy ==
    [][(last'.op \in Pulls /\ cfg.policy = "eps" /\ cfg.epsilon = RatInt(0)
        /\ cfg.epsilon_decay = 0) =>
          last'.arm = ArgMax(average_reward, n_arms)]_vars

\* C4: predict_one leaves the pull counts, the average rewards, the iteration
\* count, the number of arms and epsilon as they were, and trains no model.
C4_PredictOneChangesNothing ==
    [][last'.op = "predict_one" =>
          /\ N' = N
          /\ average_reward' = average_reward
          /\ n_iter' = n_iter
          /\ n_arms' = n_arms
          /\ epsilon' = epsilon
          /\ models' = models
          /\ metricN' = metricN
          /\ scalerN' = scalerN]_vars

\* a prediction made after some arm has been rewarded
C4_Witness ==
    /\ last.op = "predict_one"
    /\ last.err = "none"
    /\ n_iter >= 1
    /\ \E i \in Arms : average_reward[i] # RatInt(0)

\* e comes before f in the trace tr, whenever both are in it
Before(tr, e, f) ==
    \A i, j \in 1..Len(tr) : (tr[i] = e /\ tr[j] = f) => i < j

\* C5, as claimed: in every learn_one cycle the chosen model is trained only
\* after the arm statistics and the policy-specific update of that cycle.
C5_TrainedLast ==
    last.op = "learn_one" =>
        /\ Before(last.trace, "update_stats", "model_learn_one")
        /\ Before(last.trace, "update_arm", "model_learn_one")
        /\ (Done(last.trace, "model_learn_one") =>
              Done(last.trace, "update_stats") /\ Done(last.trace, "update_arm"))

\* C5, amended: the steps of a learn_one cycle are, in this order, arm
\* selection, prediction, metric update, training of the chosen model, metric
\* evaluation, scaler update, scaler transform, the iteration counter and arm
\* statistics, the policy-specific update; a cycle in which no call raises
\* performs all nine, one that raises an initial part of them.
C5_TrainedBeforeStatistics ==
    last.op = "learn_one" =>
        LET order == <<"pull_arm", "predict_one", "metric_update",
                       "model_learn_one", "metric_eval", "scaler_learn_one",
                       "scaler_transform_one", "update_stats", "update_arm">>
        IN /\ Len(last.trace) <= Len(order)
           /\ \A i \in 1..Len(last.trace) : last.trace[i] = order[i]
           /\ last.fail = "none" => Len(last.trace) = Len(order)
           /\ last.fail # "none" => Len(last.trace) < Len(order)

\* a complete cycle, whose model was trained and whose arm was rewarded
C5_Witness ==
    /\ last.op = "learn_one"
    /\ last.fail = "none"
    /\ models[last.arm].fitted >= 1
    /\ N[last.arm] >= 1

\* the cycle that has just raised
RaisedCycle == last'.op = "learn_one" /\ last'.fail # "none"

\* C6, as claimed: when a collaborator call of a learn_one cycle raises, the
\* metric, the chosen model, the scaler, the iteration counter and the arm
\* statistics are all those from before the cycle or all those of a
\* completed cycle.
C6_AllOrNothing ==
    [][RaisedCycle =>
          \/ /\ metricN' = metricN
             /\ models' = models
             /\ scalerN' = scalerN
             /\ n_iter' = n_iter
             /\ N' = N
             /\ average_reward' = average_reward
          \/ /\ metricN' = metricN + 1
             /\ models' = [models EXCEPT ![last'.arm].fitted = @ + 1]
             /\ scalerN' = scalerN + 1
             /\ n_iter' = n_iter + 1
             /\ N' = [N EXCEPT ![last'.arm] = @ + 1]]_vars

\* C6, amended: when a collaborator call of a learn_one cycle raises, the
\* iteration counter, the arm statistics and epsilon are those from before
\* the cycle, and the calls completed before the one that raised keep their
\* effect: the metric stays updated unless predict_one or the metric update
\* raised, the chosen model stays trained when the metric evaluation or a
\* scaler call raised, the scaler stays updated when its transform raised.
C6_StatisticsUntouchedOnRaise ==
    [][RaisedCycle =>
          /\ n_iter' = n_iter
          /\ N' = N
          /\ average_reward' = average_reward
          /\ epsilon' = epsilon
          /\ metricN' = IF last'.fail \in {"predict_one", "metric_update"}
                        THEN metricN ELSE metricN + 1
          /\ models' = IF last'.fail \in {"predict_one", "metric_update",
                                          "model_learn_one"}
                       THEN models
                       ELSE [models EXCEPT ![last'.arm].fitted = @ + 1]
          /\ scalerN' = IF last'.fail = "scaler_transform_one"
                        THEN scalerN + 1 ELSE scalerN]_vars

\* the chosen model's learn_one raised after the metric was updated, in a
\* bandit that already has statistics
C6_Witness ==
    /\ last.op = "learn_one"
    /\ last.fail = "model_learn_one"
    /\ metricN = n_iter + 1
    /\ n_iter >= 1

\* C7: add_models with a list of k models adds k to the number of arms, puts
\* pull count 0 and average reward 0 at the indices n_arms..n_arms+k-1, and
\* leaves the pull count, average reward and model of every earlier index
\* and the iteration count as they were.
C7_AddModelsAppends ==
    [][(last'.op = "add_models" /\ last'.err = "none") =>
          /\ n_arms' = n_arms + last'.k
          /\ DOMAIN N' = 0..(n_arms' - 1)
          /\ DOMAIN average_reward' = 0..(n_arms' - 1)
          /\ DOMAIN models' = 0..(n_arms' - 1)
          /\ \A i \in n_arms..(n_arms' - 1) :
                N'[i] = 0 /\ average_reward'[i] = RatInt(0)
          /\ \A i \in Arms :
                /\ N'[i] = N[i]
                /\ average_reward'[i] = average_reward[i]
                /\ models'[i] = models[i]
          /\ n_iter' = n_iter]_vars

\* a model was added to a bandit whose first arms have statistics
C7_Witness ==
    /\ last.op = "add_models"
    /\ last.err = "none"
    /\ last.k >= 1
    /\ \E i \in Arms : N[i] >= 1 /\ average_reward[i] # RatInt(0)
    /\ N[n_arms - 1] = 0

\* C8: add_models with an argument that is not a list raises, and then the
\* models, the number of arms, the pull counts, the average rewards and the
\* iteration count are as they were.
C8_AddModelsRejectsNonList ==
    [][last'.op = "add_models" =>
          /\ last'.kind # "list" <=> last'.err = "TypeError"
          /\ last'.kind # "list" =>
                /\ models' = models
                /\ n_arms' = n_arms
                /\ N' = N
                /\ average_reward' = average_reward
                /\ n_iter' = n_iter]_vars

\* a tuple of models was refused by a bandit that has statistics
C8_Witness ==
    /\ last.op = "add_models"
    /\ last.kind = "tuple"
    /\ last.err = "TypeError"
    /\ n_iter >= 1

\* the models given to the constructor are at least two and all work with
\* the metric
GoodModels == Len(cfg.models) >= 2 /\ \A i \in 1..Len(cfg.models) : cfg.models[i]

\* C9: Bandit.__init__ raises when fewer than 2 models are given or one of
\* them does not work with the metric, and otherwise builds a bandit with
\* one arm per model, iteration count 0 and all pull counts and averages 0.
C9_ConstructorChecksModels ==
    last.op = "__init__" =>
        /\ ~GoodModels =>
              pc = "failed" /\ last.err \in {"ValueError_models", "ValueError_metric"}
        /\ GoodModels =>
              /\ last.err \notin {"ValueError_models", "ValueError_metric"}
              /\ pc = "ready" \/ last.err = "ValueError_delta"
        /\ pc = "ready" =>
              /\ n_arms = Len(cfg.models)
              /\ n_iter = 0
              /\ N = ZerosInt(n_arms)
              /\ average_reward = ZerosFloat(n_arms)

\* a bandit built from two models
C9_Witness ==
    /\ last.op = "__init__"
    /\ pc = "ready"
    /\ Len(cfg.models) = 2

\* delta lies outside the open interval ]0, 1[
DeltaOutside ==
    /\ cfg.delta.given
    /\ ~(RatLess(RatInt(0), cfg.delta.v) /\ RatLess(cfg.delta.v, RatInt(1)))

\* C10: the construction of a UCB bandit raises for delta exactly when delta
\* is given and lies outside ]0, 1[; with delta absent or strictly between
\* 0 and 1 it succeeds.
C10_DeltaInOpenInterval ==
    (last.op = "__init__" /\ cfg.policy = "ucb") =>
        /\ DeltaOutside => pc = "failed"
        /\ GoodModels => (pc = "failed" <=> DeltaOutside)
        /\ last.err = "ValueError_delta" <=> (GoodModels /\ DeltaOutside)

\* delta = 1, an end of the interval, was refused
C10_Witness ==
    /\ last.op = "__init__"
    /\ cfg.policy = "ucb"
    /\ cfg.delta = Delta(1, 1)
    /\ GoodModels
    /\ last.err = "ValueError_delta"

\* C11: the best-arm index lies in [0, n_arms) and is the smallest index whose
\* average reward equals the maximum average reward over all arms, whatever
\* the pull counts.
C11_BestArmIsFirstMaximum ==
    pc = "ready" =>
        /\ best_model_idx \in Arms
        /\ \A j \in Arms :
              ~RatLess(average_reward[best_model_idx], average_reward[j])
        /\ \A j \in 0..(best_model_idx - 1) :
              RatLess(average_reward[j], average_reward[best_model_idx])

\* the maximum is shared by an arm never pulled and an arm added later, and
\* the arm pulled most is not the best one
C11_Witness ==
    /\ pc = "ready"
    /\ best_model_idx = 1
    /\ n_arms = 3
    /\ average_reward[2] = average_reward[1]
    /\ N[0] >= 1 /\ N[1] = 0

\* the sum of the first n entries of an array of floats
RECURSIVE RatSum(_, _)
RatSum(a, n) == IF n = 0 THEN RatInt(0) ELSE RatAdd(RatSum(a, n - 1), a[n - 1].v)

\* C12: once a learn_one has completed, percentage_pulled gives for each arm
\* its pull count divided by the total number of pulls, and the entries sum
\* to 1; before any pull (total_iterations = 0) it gives no valid percentage
\* (every entry is nan, from 0/0).
C12_PercentagePulled ==
    pc = "ready" =>
        /\ n_iter >= 1 =>
              /\ \A i \in Arms :
                    /\ percentage_pulled[i].k = "fin"
                    /\ percentage_pulled[i].v[1] * SumN(N, n_arms)
                          = N[i] * percentage_pulled[i].v[2]
              /\ RatSum(percentage_pulled, n_arms) = RatInt(1)
        /\ n_iter = 0 => \A i \in Arms : percentage_pulled[i].k = "nan"

\* pulls [2, 1] give [2/3, 1/3]
C12_Witness ==
    /\ pc = "ready"
    /\ n_arms = 2
    /\ N[0] = 2 /\ N[1] = 1
    /\ percentage_pulled[0].v = Rat(2, 3)
    /\ percentage_pulled[1].v = Rat(1, 3)

\* C13: in the scenario (3 arms, epsilon = 0, fixed rewards 1, 5, 3, each arm
\* pulled once) each of the next 10 learn_one cycles selects arm 1, and the
\* best-arm index is 1 after each of them.
C13_AlwaysArmOne ==
    [][last'.op = "learn_one" => (last'.arm = 1 /\ best_model_idx' = 1)]_vars

\* C14: the arms a bandit chooses over a sequence of its own calls are the
\* same whether or not calls on another bandit instance are interleaved
\* (the first run has none, the second has some).
C14_ChoicesIndependentOfOtherBandit == shared.arms1 = shared.arms2

\* C15: in every learn_one and predict_one of every bandit the constructor
\* accepts, each division by a pull count (the running mean, the exploration
\* bonus of every arm) has a divisor >= 1, and in the UCB1 variant the
\* iteration count whose logarithm is taken is >= 1.
C15_NoDivisionByZero ==
    [][last'.op \in Pulls =>
          /\ (last'.op = "learn_one" /\ Done(last'.trace, "update_stats")) =>
                N'[last'.arm] >= 1
          /\ last'.branch = "bound" =>
                /\ \A i \in Arms : N[i] >= 1
                /\ ~(cfg.delta.given /\ cfg.delta.v # RatInt(0)) => n_iter >= 1]_vars

\* the metric value with the sign that makes it a reward
Signed(io) == IF io.bigger_is_better THEN io.metric_value ELSE 0 - io.metric_value

\* C16: in every learn_one cycle the reward scaler is updated exactly once,
\* with the metric value itself if the metric is bigger-is-better and with
\* its negation otherwise, and this update comes before the single transform
\* call, whose result is the reward recorded for the chosen arm.
C16_ScalerUpdatedThenTransformed ==
    [][(last'.op = "learn_one" /\ last'.fail = "none") =>
          /\ reward_io'.calls =
                <<[call |-> "scaler_learn_one", x |-> Signed(reward_io')],
                  [call |-> "scaler_transform_one", x |-> Signed(reward_io')]>>
          /\ scalerN' = scalerN + 1
          /\ sumR'[last'.arm] = sumR[last'.arm] + reward_io'.reward]_vars

\* a cycle whose metric is smaller-is-better and gave a positive value
C16_Witness ==
    /\ last.op = "learn_one"
    /\ last.fail = "none"
    /\ ~reward_io.bigger_is_better
    /\ reward_io.metric_value = 3
    /\ reward_io.calls[1].x = -3
    /\ n_iter >= 2

\* a step that is a learn_one call which returned
CompletedLearnOne == last'.op = "learn_one" /\ last'.fail = "none"

C18_OnlyChosenArmChanges ==
    [][last'.op = "learn_one" =>
          /\ CompletedLearnOne =>
                /\ N'[last'.arm] = N[last'.arm] + 1
                /\ models'[last'.arm].fitted = models[last'.arm].fitted + 1
          /\ \A i \in Arms \ {last'.arm} :
                /\ N'[i] = N[i]
                /\ average_reward'[i] = average_reward[i]
                /\ models'[i] = models[i]]_vars

\* a cycle completed on one arm while another arm has statistics of its own
C18_Witness ==
    /\ last.op = "learn_one"
    /\ last.fail = "none"
    /\ \E i \in Arms \ {last.arm} : N[i] > 0 /\ average_reward[i] # RatInt(0)

\* the length n * (e + 1) of the forced exploration phase
ExplorationLength == n_arms * (cfg.explore_each_arm + 1)

C20_EveryArmWorksWithMetric ==
    pc = "ready" =>
        /\ \A i \in Arms : models[i].works
        /\ last.op \in Pulls => models[last.arm].works

====
